---- MODULE Spec2Model ----
(***************************************************************************)
(* Model of src/index.js: an MCP chat agent.  main() builds one MCPClient  *)
(* per configured provider, MCPAgent.chatLoop() reads console lines, and   *)
(* MCPAgent.processQuery() alternates LLM rounds with confirmed tool calls.*)
(* The program is one chain of async functions: pc is the position of     *)
(* that chain, and every action is a stretch of its code that ends at a    *)
(* suspension point (await), at a loop step or at a return.                *)
(* Spec is the session main() runs; ApiSpec is the two classes called      *)
(* directly: initiate(), getTool() and loadTools() in any order.           *)
(***************************************************************************)
EXTENDS Integers, Sequences, FiniteSets, TLC

\* Bound of the model: LLM requests issued in one session.
MaxRounds == 3

----------------------------------------------------------------------------
(* Inputs of the program: configuration, console, LLM and tool providers.  *)

\* Connection descriptors of mcpConfig.json: url key present or not, and the
\* value of the type key ("absent" when the key is missing).
StdioDescriptor == [url |-> FALSE, type |-> "absent"]
HttpDescriptor == [url |-> TRUE, type |-> "http"]
SseDescriptor == [url |-> TRUE, type |-> "sse"]
WsUrlDescriptor == [url |-> TRUE, type |-> "ws"]
WsNoUrlDescriptor == [url |-> FALSE, type |-> "ws"]

\* Configurations the session is started with (entries in file order).
Configs ==
  { <<>>,
    <<StdioDescriptor>>,
    <<HttpDescriptor, SseDescriptor>>,
    <<WsNoUrlDescriptor>>,
    <<WsUrlDescriptor>>,
    <<StdioDescriptor, WsUrlDescriptor>> }

\* Lines the operator types at the "You: " prompt.
ChatLines == {"hi", "quit", "QUIT"}

\* Lines the operator types at the confirmation prompt.
ConfirmLines == {"yes", "Yes", "YES", "y", " yes", ""}

\* String.prototype.toLowerCase on the console lines above.
ToLowerCase(s) ==
  CASE s = "QUIT" -> "quit"
    [] s = "Yes" -> "yes"
    [] s = "YES" -> "yes"
    [] OTHER -> s

\* Provider input schemas: maps from top-level key to value.
SchemaClean == ("type" :> "object" @@ "properties" :> "p")
SchemaBoth ==
  ("type" :> "object" @@ "properties" :> "q"
     @@ "additionalProperties" :> "false" @@ "$schema" :> "draft-07")
SchemaOne == ("type" :> "object" @@ "required" :> "r" @@ "$schema" :> "draft-07")

AddTool == [name |-> "add", description |-> "adds", inputSchema |-> SchemaBoth]
SumTool == [name |-> "add", description |-> "sums", inputSchema |-> SchemaOne]
EchoTool == [name |-> "echo", description |-> "echoes", inputSchema |-> SchemaClean]

\* Tool lists a provider may answer listTools with.
Catalogs == { <<>>, <<AddTool>>, <<SumTool, EchoTool>> }

\* Value a provider answers a tool call with.
ToolResponses == {"result"}

\* Parts of a turn.  A model part either has no functionCall key (text), has
\* one holding a call, or has one holding an empty (falsy) value.
TextPart(t) == [kind |-> "text", name |-> "", args |-> "", payload |-> t]
FunctionCallPart(n, a) ==
  [kind |-> "functionCall", name |-> n, args |-> a, payload |-> ""]
EmptyFunctionCallPart ==
  [kind |-> "functionCallEmpty", name |-> "", args |-> "", payload |-> ""]

\* Contents of candidates[0] the LLM may reply with.
Replies ==
  { <<TextPart("answer")>>,
    <<FunctionCallPart("add", "a1")>>,
    <<FunctionCallPart("echo", "a2")>>,
    <<TextPart("thinking"), FunctionCallPart("add", "a1")>>,
    <<FunctionCallPart("add", "a1"), FunctionCallPart("echo", "a2")>>,
    <<EmptyFunctionCallPart>> }

----------------------------------------------------------------------------
(* Pure helpers, one per expression of the source.                         *)

\* getMCPClients: the transport chosen for one descriptor, "throw" for the
\* Error of the last branch.
TransportOf(config) ==
  IF ~config.url THEN "stdio"
  ELSE IF config.type = "http" THEN "http"
  ELSE IF config.type = "sse" THEN "sse"
  ELSE "throw"

\* new MCPClient(name, transport); tools = null is toolsNull = TRUE.
NewMCPClient(transport) ==
  [transport |-> transport, initialised |-> FALSE, toolsNull |-> TRUE, tools |-> <<>>]

\* A confirmation test that ignores the case of the line.
ConfirmedIgnoringCase(line) == ToLowerCase(line) = "yes"

\* callTool: the test that lets the call through.
Confirmed(line) == line = "yes"

\* A filter that forgets the $schema key.
StripAdditionalPropertiesOnly(inputSchema) ==
  [key \in DOMAIN inputSchema \ {"additionalProperties"} |-> inputSchema[key]]

\* loadTools: the keys of inputSchema copied into parameters.
StripKeys(inputSchema) ==
  [key \in DOMAIN inputSchema \ {"additionalProperties", "$schema"} |-> inputSchema[key]]

\* loadTools: the registry entry built for one tool of one client.
ToolEntry(tool, client) ==
  [name |-> tool.name,
   definition |-> [name |-> tool.name, description |-> tool.description,
                   parameters |-> StripKeys(tool.inputSchema)],
   client |-> client]

\* A registry in which a name already registered keeps its first entry.
KeepFirstEntry(entries, entry) ==
  IF \E i \in DOMAIN entries : entries[i].name = entry.name
  THEN entries
  ELSE Append(entries, entry)

\* this._cachedTools[name] = entry: an existing key keeps its position.
SetEntry(entries, entry) ==
  IF \E i \in DOMAIN entries : entries[i].name = entry.name
  THEN [i \in DOMAIN entries |-> IF entries[i].name = entry.name THEN entry ELSE entries[i]]
  ELSE Append(entries, entry)

RECURSIVE RegisterAll(_, _, _)
\* loadTools: tools.map(...) over the list of one client.
RegisterAll(entries, tools, client) ==
  IF tools = <<>> THEN entries
  ELSE RegisterAll(SetEntry(entries, ToolEntry(Head(tools), client)), Tail(tools), client)

\* loadTools: its return value, one declaration group per registry entry.
Declarations(entries) ==
  [i \in 1..Len(entries) |-> [functionDeclarations |-> <<entries[i].definition>>]]

\* A loadTools without the null test: every call rebuilds the cache.
CacheAlwaysRebuilt(cache) == TRUE

\* loadTools: the test that starts the build.
CacheIsNull(cache) == cache.isNull

\* this._cachedTools[name] is defined.
Registered(entries, name) == \E i \in DOMAIN entries : entries[i].name = name

\* this._cachedTools[name].client
ClientOf(entries, name) ==
  entries[CHOOSE i \in DOMAIN entries : entries[i].name = name].client

\* processQuery: 'functionCall' in part
HasFunctionCallKey(part) == part.kind \in {"functionCall", "functionCallEmpty"}

\* An end-of-loop test with the negation dropped.
EveryPartIsFunctionCall(parts) == \A i \in DOMAIN parts : HasFunctionCallKey(parts[i])

\* processQuery: the test that ends the loop.
NoFunctionCall(parts) == \A i \in DOMAIN parts : ~HasFunctionCallKey(parts[i])

\* processQuery: part.functionCall is truthy (the part is dispatched).
IsDispatched(part) == part.kind = "functionCall"

\* The fixed payload of a failed or cancelled call.
FailedPayload == "Tool/Function call failed or was cancelled."

\* The two branches of if (success) swapped.
FunctionResponsePartSwapped(name, success, toolResponse) ==
  [kind |-> "functionResponse", name |-> name, args |-> "",
   payload |-> IF success THEN FailedPayload ELSE toolResponse]

\* A functionResponse part that leaves the name of the call out.
FunctionResponsePartUnnamed(name, success, toolResponse) ==
  [kind |-> "functionResponse", name |-> "", args |-> "",
   payload |-> IF success THEN toolResponse ELSE FailedPayload]

\* processQuery: the functionResponse part pushed for one call.
FunctionResponsePart(name, success, toolResponse) ==
  [kind |-> "functionResponse", name |-> name, args |-> "",
   payload |-> IF success THEN toolResponse ELSE FailedPayload]

\* A turn pushed with the role of the model whatever its role is.
TurnAsModel(role, parts) == [role |-> "model", parts |-> parts]

\* One turn of the contents: { parts, role }.
Turn(role, parts) == [role |-> role, parts |-> parts]

\* A processQuery that starts from the new turn alone.
ContentsWithoutHistory(savedContent, query, role) == <<Turn(role, <<TextPart(query)>>)>>

\* processQuery: currentContents, a new array of the saved turns and the
\* turn of the query.
InitialContents(savedContent, query, role) ==
  Append(savedContent, Turn(role, <<TextPart(query)>>))

\* A processQuery that pushes to the array it was given.
CallerHistoryAliased(savedContent, contents) == contents

\* processQuery: the array of the caller, seen after a write to
\* currentContents; currentContents is a copy, so it is not written.
CallerHistory(savedContent, contents) == savedContent

\* A getTool that never calls initiate.
NeverNeedsConnect(client) == FALSE

\* A connect without the initialised test.
AlwaysNeedsConnect(client) == TRUE

\* initiate / getTool: the test that makes the client connect.
NeedsConnect(client) == ~client.initialised

\* getTool: the test that makes the client list its tools.
NeedsTools(client) == client.toolsNull

\* chatLoop: the history a session starts with.
InitialHistory == <<Turn("user", <<TextPart("system prompt")>>)>>

\* chatLoop: the test that ends the session.
IsQuit(message) == ToLowerCase(message) = "quit"

\* The callTool bookkeeping before any call.
NoCall ==
  [toolName |-> "", args |-> "", client |-> 0, asked |-> FALSE, line |-> "",
   sent |-> <<>>, outcome |-> "none"]

\* An external operation in flight (a pending promise).
Op(kind, part) == [kind |-> kind, part |-> part]

\* The operations still in flight once op has settled.
Settle(ops, op) == SelectSeq(ops, LAMBDA o : o /= op)

----------------------------------------------------------------------------
VARIABLES
  mcpConfig,             \* the imported configuration
  mcpClients,            \* MCPAgent.mcpClients: the MCPClient objects
  provider,              \* per provider: requests it has received
  cachedTools,           \* MCPAgent._cachedTools
  rlOpen,                \* the readline interface is open
  remoteTools,           \* the tools each provider serves at listTools
  entered,               \* the method the outermost caller is in
  pc,                    \* position of the async chain
  error,                 \* the error that ended the session, or "none"
  history,               \* chatLoop: history
  currentContents,       \* processQuery: currentContents
  response,              \* processQuery: parts of the last reply
  clientIdx,             \* loadTools: position of its for loop
  partIdx,               \* processQuery: position of its for loop
  functionResponseParts, \* processQuery: functionResponseParts
  call,                  \* the callTool invocation in progress or last done
  inflight,              \* external operations in flight
  declarations,          \* last value returned by loadTools
  replies,               \* replies the LLM gave to the current query
  rounds,                \* LLM requests of the current query
  totalRounds,           \* LLM requests of the session
  prompts,               \* confirmation prompts of the current query
  cancels,               \* cancelled confirmations of the current query
  invocations            \* provider tool requests of the current query

vars ==
  <<remoteTools, entered, mcpConfig, mcpClients, provider, cachedTools, rlOpen, pc, error, history,
    currentContents, response, clientIdx, partIdx, functionResponseParts, call,
    inflight, declarations, replies, rounds, totalRounds, prompts, cancels,
    invocations>>

envVars == <<mcpConfig, remoteTools, entered>>
agentVars == <<mcpClients, provider, cachedTools, clientIdx, declarations>>
queryVars == <<currentContents, response, partIdx, functionResponseParts, replies>>
countVars == <<rounds, totalRounds, prompts, cancels, invocations>>

NoRequests == [connect |-> 0, listTools |-> 0, callTool |-> 0, close |-> 0]

\* MCPClient.cleanup: closes the client of provider i.  No code path of main
\* or chatLoop calls it, so no action below uses it.
cleanup(requests, i) == [requests EXCEPT ![i].close = @ + 1]

Init ==
  /\ mcpConfig \in Configs
  /\ remoteTools \in [DOMAIN mcpConfig -> Catalogs]
  /\ entered = "chatLoop"
  /\ mcpClients = <<>>
  /\ provider = [i \in DOMAIN mcpConfig |-> NoRequests]
  /\ cachedTools = [isNull |-> TRUE, entries |-> <<>>]
  /\ rlOpen = TRUE
  /\ pc = "main"
  /\ error = "none"
  /\ history = <<>>
  /\ currentContents = <<>>
  /\ response = <<>>
  /\ clientIdx = 0
  /\ partIdx = 0
  /\ functionResponseParts = <<>>
  /\ call = NoCall
  /\ inflight = <<>>
  /\ declarations = [valid |-> FALSE, value |-> <<>>]
  /\ replies = <<>>
  /\ rounds = 0
  /\ totalRounds = 0
  /\ prompts = 0
  /\ cancels = 0
  /\ invocations = 0

\* An error thrown by an awaited call.  Inside chatLoop, finally closes
\* readline and main's catch logs it; nothing runs afterwards.  Thrown to
\* another caller, the caller has it and goes on.
Raise(e, inChatLoop) ==
  /\ pc' = IF inChatLoop THEN "failed" ELSE "caller"
  /\ error' = e
  /\ rlOpen' = IF inChatLoop THEN FALSE ELSE rlOpen
  /\ inflight' = <<>>

Throw(e) == Raise(e, TRUE)

\* loadTools: where its return value goes, to processQuery or to the caller
\* that called loadTools itself.
AfterLoadTools(entry) == IF entry = "chatLoop" THEN "generateContent" ELSE "caller"

\* main up to chatLoop: getMCPClients either throws (caught and logged by
\* main, readline stays open) or yields the clients the agent is built with.
main ==
  /\ pc = "main"
  /\ IF \E i \in DOMAIN mcpConfig : TransportOf(mcpConfig[i]) = "throw"
     THEN /\ pc' = "failed"
          /\ error' = "ConfigError"
          /\ UNCHANGED <<mcpClients, history>>
     ELSE /\ mcpClients' = [i \in DOMAIN mcpConfig |-> NewMCPClient(TransportOf(mcpConfig[i]))]
          /\ history' = InitialHistory
          /\ pc' = "chatLoop"
          /\ error' = error
  /\ UNCHANGED <<envVars, provider, cachedTools, rlOpen, clientIdx, declarations,
                 queryVars, call, inflight, countVars>>

\* chatLoop: rl.question("You: ") is issued.
chatLoop_question ==
  /\ pc = "chatLoop"
  /\ inflight' = Append(inflight, Op("question", 0))
  /\ pc' = "awaitMessage"
  /\ UNCHANGED <<envVars, agentVars, rlOpen, error, history, queryVars, call, countVars>>

\* chatLoop: a line arrives.  quit closes readline and exits with status 0;
\* anything else starts processQuery, which builds currentContents.
chatLoop_message ==
  /\ pc = "awaitMessage"
  /\ \E message \in ChatLines :
       IF IsQuit(message)
       THEN /\ rlOpen' = FALSE
            /\ pc' = "exited"
            /\ UNCHANGED <<history, queryVars, countVars>>
       ELSE /\ currentContents' = InitialContents(history, message, "user")
            /\ history' = CallerHistory(history, currentContents')
            /\ replies' = <<>>
            /\ rounds' = 0
            /\ prompts' = 0
            /\ cancels' = 0
            /\ invocations' = 0
            /\ pc' = "loadTools"
            /\ UNCHANGED <<rlOpen, response, partIdx, functionResponseParts, totalRounds>>
  /\ inflight' = Settle(inflight, Op("question", 0))
  /\ UNCHANGED <<envVars, agentVars, error, call>>

\* loadTools: entry.  A null cache is replaced by an empty one and the loop
\* over the clients starts; otherwise the cached declarations are returned.
loadTools ==
  /\ pc = "loadTools"
  /\ IF CacheIsNull(cachedTools)
     THEN /\ cachedTools' = [isNull |-> FALSE, entries |-> <<>>]
          /\ clientIdx' = 1
          /\ pc' = "getTool"
          /\ UNCHANGED declarations
     ELSE /\ declarations' = [valid |-> TRUE, value |-> Declarations(cachedTools.entries)]
          /\ pc' = AfterLoadTools(entered)
          /\ UNCHANGED <<cachedTools, clientIdx>>
  /\ UNCHANGED <<envVars, mcpClients, provider, rlOpen, error, history, queryVars,
                 call, inflight, countVars>>

\* loadTools loop and getTool up to its next await: connect when the client
\* is not initialised, list when it has no tools, else hand its tools to the
\* caller: the loop of loadTools, which registers them, or the caller of
\* getTool itself.
getTool ==
  /\ pc = "getTool"
  /\ IF entered # "getTool" /\ clientIdx > Len(mcpClients)
     THEN /\ declarations' = [valid |-> TRUE, value |-> Declarations(cachedTools.entries)]
          /\ pc' = AfterLoadTools(entered)
          /\ UNCHANGED <<provider, cachedTools, clientIdx, inflight>>
     ELSE IF NeedsConnect(mcpClients[clientIdx])
     THEN /\ provider' = [provider EXCEPT ![clientIdx].connect = @ + 1]
          /\ inflight' = Append(inflight, Op("connect", 0))
          /\ pc' = "awaitConnect"
          /\ UNCHANGED <<cachedTools, clientIdx, declarations>>
     ELSE IF NeedsTools(mcpClients[clientIdx])
     THEN /\ provider' = [provider EXCEPT ![clientIdx].listTools = @ + 1]
          /\ inflight' = Append(inflight, Op("listTools", 0))
          /\ pc' = "awaitListTools"
          /\ UNCHANGED <<cachedTools, clientIdx, declarations>>
     ELSE IF entered = "getTool"
     THEN /\ pc' = "caller"
          /\ UNCHANGED <<provider, cachedTools, clientIdx, inflight, declarations>>
     ELSE /\ cachedTools' =
               [cachedTools EXCEPT !.entries =
                  RegisterAll(@, mcpClients[clientIdx].tools, clientIdx)]
          /\ clientIdx' = clientIdx + 1
          /\ pc' = "getTool"
          /\ UNCHANGED <<provider, inflight, declarations>>
  /\ UNCHANGED <<envVars, mcpClients, rlOpen, error, history, queryVars, call, countVars>>

\* initiate: the connect settles.  On success the client is initialised and
\* initiate returns, to getTool or to its own caller; a rejection is thrown
\* before the assignment.
initiate_done ==
  /\ pc = "awaitConnect"
  /\ \/ /\ mcpClients' = [mcpClients EXCEPT ![clientIdx].initialised = TRUE]
        /\ inflight' = Settle(inflight, Op("connect", 0))
        /\ pc' = IF entered = "initiate" THEN "caller" ELSE "getTool"
        /\ UNCHANGED <<rlOpen, error>>
     \/ /\ Raise("TransportError", entered = "chatLoop")
        /\ UNCHANGED mcpClients
  /\ UNCHANGED <<envVars, provider, cachedTools, clientIdx, declarations, history,
                 queryVars, call, countVars>>

\* getTool: listTools settles; the list is kept and returned, to the loop of
\* loadTools, which registers it, or to the caller of getTool itself.
getTool_done ==
  /\ pc = "awaitListTools"
  /\ \/ LET tools == remoteTools[clientIdx] IN
          /\ mcpClients' = [mcpClients EXCEPT ![clientIdx].tools = tools,
                                              ![clientIdx].toolsNull = FALSE]
          /\ IF entered = "getTool"
             THEN /\ pc' = "caller"
                  /\ UNCHANGED <<cachedTools, clientIdx>>
             ELSE /\ cachedTools' =
                       [cachedTools EXCEPT !.entries = RegisterAll(@, tools, clientIdx)]
                  /\ clientIdx' = clientIdx + 1
                  /\ pc' = "getTool"
          /\ inflight' = Settle(inflight, Op("listTools", 0))
          /\ UNCHANGED <<rlOpen, error>>
     \/ /\ Raise("TransportError", entered = "chatLoop")
        /\ UNCHANGED <<mcpClients, cachedTools, clientIdx>>
  /\ UNCHANGED <<envVars, provider, declarations, history, queryVars, call, countVars>>

\* processQuery: generateContent is issued with the declarations.
generateContent ==
  /\ pc = "generateContent"
  /\ totalRounds < MaxRounds
  /\ inflight' = Append(inflight, Op("generateContent", 0))
  /\ rounds' = rounds + 1
  /\ totalRounds' = totalRounds + 1
  /\ pc' = "awaitModel"
  /\ UNCHANGED <<envVars, agentVars, rlOpen, error, history, queryVars, call,
                 prompts, cancels, invocations>>

\* processQuery: the reply arrives and is pushed; without a functionCall key
\* in any part the loop ends and processQuery returns.
generateContent_done ==
  /\ pc = "awaitModel"
  /\ \/ \E reply \in Replies :
          /\ response' = reply
          /\ replies' = Append(replies, reply)
          /\ currentContents' = Append(currentContents, Turn("model", reply))
          /\ history' = CallerHistory(history, currentContents')
          /\ inflight' = Settle(inflight, Op("generateContent", 0))
          /\ IF NoFunctionCall(reply)
             THEN /\ pc' = "returned"
                  /\ UNCHANGED <<partIdx, functionResponseParts>>
             ELSE /\ pc' = "dispatch"
                  /\ partIdx' = 1
                  /\ functionResponseParts' = <<>>
          /\ UNCHANGED <<rlOpen, error>>
     \/ /\ Throw("LLMError")
        /\ UNCHANGED <<history, queryVars>>
  /\ UNCHANGED <<envVars, agentVars, call, countVars>>

\* processQuery: one step of the loop over the parts.  At a dispatched part
\* callTool issues its confirmation question; the chain then stands at
\* position resume with the loop at part resumeIdx.
DispatchStep(resume, resumeIdx) ==
  /\ pc = "dispatch"
  /\ IF partIdx > Len(response)
     THEN /\ currentContents' = Append(currentContents, Turn("user", functionResponseParts))
          /\ history' = CallerHistory(history, currentContents')
          /\ pc' = "loadTools"
          /\ call' = NoCall
          /\ UNCHANGED <<partIdx, inflight, prompts, rlOpen, error>>
     ELSE IF ~IsDispatched(response[partIdx])
     THEN /\ partIdx' = partIdx + 1
          /\ pc' = "dispatch"
          /\ UNCHANGED <<history, currentContents, call, inflight, prompts, rlOpen, error>>
     ELSE IF ~Registered(cachedTools.entries, response[partIdx].name)
     THEN /\ Throw("TypeError")
          /\ UNCHANGED <<history, currentContents, partIdx, call, prompts>>
     ELSE /\ call' = [NoCall EXCEPT !.toolName = response[partIdx].name,
                                    !.args = response[partIdx].args,
                                    !.client = ClientOf(cachedTools.entries, response[partIdx].name)]
          /\ inflight' = Append(inflight, Op("confirm", partIdx))
          /\ prompts' = prompts + 1
          /\ pc' = resume
          /\ partIdx' = resumeIdx
          /\ UNCHANGED <<history, currentContents, rlOpen, error>>
  /\ UNCHANGED <<envVars, agentVars, response, functionResponseParts, replies,
                 rounds, totalRounds, cancels, invocations>>

\* A dispatch loop that does not await callTool: it goes on to the next part
\* while the confirmation question is still pending.
dispatchWithoutAwait == DispatchStep("dispatch", partIdx + 1)

\* processQuery: the loop awaits callTool, so the chain is suspended at the
\* confirmation question with the loop still at the same part.
dispatch == DispatchStep("awaitConfirm", partIdx)

\* callTool: the confirmation line arrives.  Anything but "yes" returns the
\* cancelled outcome, for which processQuery pushes the failed part; "yes"
\* issues the provider's callTool.
callTool_answer ==
  /\ pc = "awaitConfirm"
  /\ \E line \in ConfirmLines :
       IF ~Confirmed(line)
       THEN /\ call' = [call EXCEPT !.asked = TRUE, !.line = line, !.outcome = "cancelled"]
            /\ functionResponseParts' =
                 Append(functionResponseParts, FunctionResponsePart(call.toolName, FALSE, "null"))
            /\ partIdx' = partIdx + 1
            /\ cancels' = cancels + 1
            /\ inflight' = Settle(inflight, Op("confirm", partIdx))
            /\ pc' = "dispatch"
            /\ UNCHANGED <<provider, invocations>>
       ELSE /\ call' = [call EXCEPT !.asked = TRUE, !.line = line,
                                    !.sent = Append(@, [name |-> call.toolName,
                                                        arguments |-> call.args])]
            /\ provider' = [provider EXCEPT ![call.client].callTool = @ + 1]
            /\ invocations' = invocations + 1
            /\ inflight' = Append(Settle(inflight, Op("confirm", partIdx)), Op("callTool", partIdx))
            /\ pc' = "awaitTool"
            /\ UNCHANGED <<functionResponseParts, partIdx, cancels>>
  /\ UNCHANGED <<envVars, mcpClients, cachedTools, clientIdx, declarations, rlOpen,
                 error, history, currentContents, response, replies, rounds,
                 totalRounds, prompts>>

\* callTool: the provider's callTool settles.  A response is returned with
\* success and pushed as the functionResponse part; a rejection propagates.
callTool_done ==
  /\ pc = "awaitTool"
  /\ \/ \E toolResponse \in ToolResponses :
          /\ call' = [call EXCEPT !.outcome = "returned"]
          /\ functionResponseParts' =
               Append(functionResponseParts,
                      FunctionResponsePart(call.toolName, TRUE, toolResponse))
          /\ partIdx' = partIdx + 1
          /\ inflight' = Settle(inflight, Op("callTool", partIdx))
          /\ pc' = "dispatch"
          /\ UNCHANGED <<rlOpen, error>>
     \/ /\ call' = [call EXCEPT !.outcome = "threw"]
        /\ Throw("ToolError")
        /\ UNCHANGED <<functionResponseParts, partIdx>>
  /\ UNCHANGED <<envVars, agentVars, history, currentContents, response, replies, countVars>>

\* chatLoop: processQuery has returned; history becomes the returned
\* contents, the reply is printed and the loop goes back to the prompt.
chatLoop_reply ==
  /\ pc = "returned"
  /\ history' = currentContents
  /\ pc' = "chatLoop"
  /\ UNCHANGED <<envVars, agentVars, rlOpen, error, queryVars, call, inflight, countVars>>

Next ==
  \/ main
  \/ chatLoop_question
  \/ chatLoop_message
  \/ loadTools
  \/ getTool
  \/ initiate_done
  \/ getTool_done
  \/ generateContent
  \/ generateContent_done
  \/ dispatch
  \/ callTool_answer
  \/ callTool_done
  \/ chatLoop_reply

Spec == Init /\ [][Next]_vars

----------------------------------------------------------------------------
\* The classes called directly.  A caller holds the clients and the agent
\* built on them and calls initiate() and getTool() on a client and
\* loadTools() on the agent, one call at a time, in any order; a call that
\* throws gives the error to the caller, who goes on, and error is the
\* error of the last call.

\* Cap on the connect requests and on the listTools requests the caller lets
\* one provider receive before it stops calling that client.
MaxRequests == 2

\* The configurations getMCPClients builds clients for.
ClientConfigs ==
  { config \in Configs :
      \A i \in DOMAIN config : TransportOf(config[i]) # "throw" }

\* The clients and the agent as their constructors leave them.
ApiInit ==
  /\ mcpConfig \in ClientConfigs
  /\ remoteTools \in [DOMAIN mcpConfig -> Catalogs]
  /\ entered = "none"
  /\ mcpClients = [i \in DOMAIN mcpConfig |-> NewMCPClient(TransportOf(mcpConfig[i]))]
  /\ provider = [i \in DOMAIN mcpConfig |-> NoRequests]
  /\ cachedTools = [isNull |-> TRUE, entries |-> <<>>]
  /\ rlOpen = TRUE
  /\ pc = "caller"
  /\ error = "none"
  /\ history = <<>>
  /\ currentContents = <<>>
  /\ response = <<>>
  /\ clientIdx = 0
  /\ partIdx = 0
  /\ functionResponseParts = <<>>
  /\ call = NoCall
  /\ inflight = <<>>
  /\ declarations = [valid |-> FALSE, value |-> <<>>]
  /\ replies = <<>>
  /\ rounds = 0
  /\ totalRounds = 0
  /\ prompts = 0
  /\ cancels = 0
  /\ invocations = 0

\* The caller calls initiate() on a client: nothing when the client is
\* initialised, else the transport connect is issued.
call_initiate ==
  /\ pc = "caller"
  /\ \E i \in DOMAIN mcpClients :
       /\ provider[i].connect < MaxRequests
       /\ clientIdx' = i
       /\ IF NeedsConnect(mcpClients[i])
          THEN /\ provider' = [provider EXCEPT ![i].connect = @ + 1]
               /\ inflight' = Append(inflight, Op("connect", 0))
               /\ pc' = "awaitConnect"
          ELSE /\ pc' = "caller"
               /\ UNCHANGED <<provider, inflight>>
  /\ entered' = "initiate"
  /\ error' = "none"
  /\ UNCHANGED <<mcpConfig, remoteTools, mcpClients, cachedTools, declarations, rlOpen,
                 history, queryVars, call, countVars>>

\* The caller calls getTool() on a client.
call_getTool ==
  /\ pc = "caller"
  /\ \E i \in DOMAIN mcpClients :
       /\ provider[i].connect < MaxRequests
       /\ provider[i].listTools < MaxRequests
       /\ clientIdx' = i
  /\ entered' = "getTool"
  /\ pc' = "getTool"
  /\ error' = "none"
  /\ UNCHANGED <<mcpConfig, remoteTools, mcpClients, provider, cachedTools, declarations,
                 rlOpen, history, queryVars, call, inflight, countVars>>

\* The caller calls loadTools() on the agent; it has no result yet.
call_loadTools ==
  /\ pc = "caller"
  /\ entered' = "loadTools"
  /\ declarations' = [valid |-> FALSE, value |-> <<>>]
  /\ pc' = "loadTools"
  /\ error' = "none"
  /\ UNCHANGED <<mcpConfig, remoteTools, mcpClients, provider, cachedTools, clientIdx,
                 rlOpen, history, queryVars, call, inflight, countVars>>

ApiNext ==
  \/ call_initiate
  \/ call_getTool
  \/ call_loadTools
  \/ loadTools
  \/ getTool
  \/ initiate_done
  \/ getTool_done

ApiSpec == ApiInit /\ [][ApiNext]_vars

----------------------------------------------------------------------------
(* Properties.                                                             *)

\* Parts of a reply that carry a functionCall key.
NumCalls(parts) == Cardinality({i \in DOMAIN parts : HasFunctionCallKey(parts[i])})

\* Dispatched parts of a reply before position k.
NumDispatchedBefore(parts, k) ==
  Cardinality({i \in DOMAIN parts : i < k /\ IsDispatched(parts[i])})

\* C1: Confirmation gate.  A callTool invocation sends a request to the
\* provider only after the line read for it is exactly "yes", and then sends
\* exactly one, with the same name and args; after any other line nothing
\* has been sent and the outcome is the cancelled one.
ConfirmationGate ==
  /\ call.sent /= <<>> => call.asked /\ call.line = "yes"
  /\ call.asked /\ call.line = "yes" =>
       call.sent = <<[name |-> call.toolName, arguments |-> call.args]>>
  /\ call.asked /\ call.line /= "yes" =>
       /\ call.sent = <<>>
       /\ call.outcome = "cancelled"
       /\ functionResponseParts[Len(functionResponseParts)] =
            [kind |-> "functionResponse", name |-> call.toolName, args |-> "",
             payload |-> FailedPayload]

\* C1 witness: a call confirmed with "yes" has reached the provider once and
\* has returned.
ConfirmedCallReturned ==
  /\ call.asked
  /\ call.line = "yes"
  /\ Len(call.sent) = 1
  /\ call.outcome = "returned"

\* C2: Unknown-tool handling.  A dispatched function call whose name is not
\* in the registry gets a failed functionResponse part, raises no fault, and
\* the loop goes on with the next part.
UnknownToolHandled ==
  [][(/\ pc = "dispatch"
      /\ partIdx <= Len(response)
      /\ IsDispatched(response[partIdx])
      /\ ~Registered(cachedTools.entries, response[partIdx].name))
     => (/\ error' = "none"
         /\ pc' = "dispatch"
         /\ partIdx' = partIdx + 1
         /\ functionResponseParts' =
              Append(functionResponseParts,
                     [kind |-> "functionResponse", name |-> response[partIdx].name,
                      args |-> "", payload |-> FailedPayload]))]_vars

\* C3: Provider failure propagation.  When the provider's callTool of a
\* confirmed call throws, a functionResponse part with the fixed payload is
\* pushed and the loop continues; the session does not end.
ProviderFailureReported ==
  [][(call.outcome /= "threw" /\ call'.outcome = "threw")
     => (/\ error' = "none"
         /\ pc' = "dispatch"
         /\ functionResponseParts' =
              Append(functionResponseParts,
                     [kind |-> "functionResponse", name |-> call.toolName,
                      args |-> "", payload |-> FailedPayload]))]_vars

\* C4: Loop continuation.  When processQuery returns after a first reply
\* with exactly one function-call part and a second reply with none, the
\* operator having been asked and never having cancelled, it has made exactly
\* two LLM requests and one provider tool request, and the returned contents
\* are the saved history followed by the user turn, the model turn with the
\* call, a user turn with the one functionResponse part of that call's name
\* carrying the provider's response, and the final model turn.
LoopContinuation ==
  (/\ pc = "returned"
   /\ Len(replies) >= 2
   /\ NumCalls(replies[1]) = 1
   /\ NumCalls(replies[2]) = 0
   /\ prompts > 0
   /\ cancels = 0)
  => /\ rounds = 2
     /\ invocations = 1
     /\ \E message \in ChatLines, toolResponse \in ToolResponses, i \in DOMAIN replies[1] :
          /\ HasFunctionCallKey(replies[1][i])
          /\ currentContents =
               history \o
               << [role |-> "user", parts |-> <<TextPart(message)>>],
                  [role |-> "model", parts |-> replies[1]],
                  [role |-> "user",
                   parts |-> << [kind |-> "functionResponse", name |-> replies[1][i].name,
                                 args |-> "", payload |-> toolResponse] >>],
                  [role |-> "model", parts |-> replies[2]] >>

\* C4 witness: processQuery has returned from such a two-round query.
TwoRoundQueryReturned ==
  /\ pc = "returned"
  /\ Len(replies) = 2
  /\ NumCalls(replies[1]) = 1
  /\ NumCalls(replies[2]) = 0
  /\ prompts = 1
  /\ cancels = 0
  /\ invocations = 1

\* C5: Loop termination on plain text.  When the first reply to a query has
\* no function-call part, processQuery returns at once: one LLM request, no
\* confirmation prompt, no provider tool request, and the reply it returns is
\* that first reply.
LoopTermination ==
  (Len(replies) >= 1 /\ NumCalls(replies[1]) = 0)
  => /\ pc \in {"returned", "chatLoop", "awaitMessage", "exited"}
     /\ rounds = 1
     /\ prompts = 0
     /\ invocations = 0
     /\ response = replies[1]
     /\ currentContents[Len(currentContents)] = [role |-> "model", parts |-> replies[1]]

\* C5 witness: processQuery has returned after a first reply of plain text.
PlainTextQueryReturned ==
  /\ pc = "returned"
  /\ Len(replies) = 1
  /\ NumCalls(replies[1]) = 0

\* C6: Cache idempotence.  No provider ever receives more than one connect
\* or more than one listTools request; once loadTools has returned, the
\* registry is never modified again and every later loadTools returns the
\* same declarations.
CacheIdempotence ==
  [][/\ \A i \in DOMAIN provider' :
          provider'[i].connect <= 1 /\ provider'[i].listTools <= 1
     /\ declarations.valid =>
          /\ cachedTools' = cachedTools
          /\ declarations' = declarations]_vars

\* C6 witness: loadTools has returned for a second LLM round, with a
\* registry that is not empty.
LoadToolsReturnedAgain ==
  /\ pc = "generateContent"
  /\ totalRounds >= 1
  /\ declarations.valid
  /\ cachedTools.entries /= <<>>

\* C7: Handle shutdown.  Once the session has ended (quit or an error), every
\* constructed client has been closed exactly once.
HandlesClosedAtShutdown ==
  pc \in {"exited", "failed"} =>
    \A i \in DOMAIN mcpClients : provider[i].close = 1

\* C8: Strictly sequential dispatch.  At most one external operation is in
\* flight; while the confirmation question of a call is pending, every
\* earlier call of the reply has its functionResponse part (it was cancelled
\* or its provider response has returned); while a provider tool request is
\* pending, the confirmation line of that call has been read and no question
\* is pending.
SequentialDispatch ==
  /\ Len(inflight) <= 1
  /\ \A i \in DOMAIN inflight :
       /\ inflight[i].kind = "confirm" =>
            /\ ~call.asked
            /\ Len(functionResponseParts) = NumDispatchedBefore(response, inflight[i].part)
       /\ inflight[i].kind = "callTool" =>
            /\ call.asked
            /\ Len(functionResponseParts) = NumDispatchedBefore(response, inflight[i].part)
            /\ \A j \in DOMAIN inflight : inflight[j].kind /= "confirm"

\* C8 witness: the confirmation question of the second call of a reply is
\* pending, after the first call has returned.
SecondCallPrompted ==
  /\ inflight = <<Op("confirm", 2)>>
  /\ IsDispatched(response[1])
  /\ Len(functionResponseParts) = 1
  /\ functionResponseParts[1].payload \in ToolResponses

\* C9: Configuration fail-fast.  A configuration with a descriptor whose type
\* is neither http nor sse never gets past startup: no client is built, the
\* chat loop is not entered, and startup fails with the configuration error.
UnknownTypeFailsFast ==
  (\E i \in DOMAIN mcpConfig : mcpConfig[i].type \notin {"http", "sse", "absent"})
  => /\ pc \in {"main", "failed"}
     /\ mcpClients = <<>>
     /\ pc = "failed" => error = "ConfigError"

\* C10: Schema-key stripping.  Every tool a provider has returned is in the
\* registry under its name; the parameters of every registry entry, and of
\* every declaration given to the LLM, hold neither additionalProperties nor
\* $schema, and hold every other top-level key of the inputSchema of the
\* owner's tool with its value unchanged, and no other key.
SchemaKeysStripped ==
  /\ \A c \in DOMAIN mcpClients : \A t \in DOMAIN mcpClients[c].tools :
       Registered(cachedTools.entries, mcpClients[c].tools[t].name)
  /\ \A e \in DOMAIN cachedTools.entries :
       LET entry == cachedTools.entries[e]
           parameters == entry.definition.parameters
       IN /\ "additionalProperties" \notin DOMAIN parameters
          /\ "$schema" \notin DOMAIN parameters
          /\ \E t \in DOMAIN mcpClients[entry.client].tools :
               LET tool == mcpClients[entry.client].tools[t]
               IN /\ tool.name = entry.name
                  /\ tool.description = entry.definition.description
                  /\ DOMAIN parameters =
                       DOMAIN tool.inputSchema \ {"additionalProperties", "$schema"}
                  /\ \A key \in DOMAIN parameters : parameters[key] = tool.inputSchema[key]
  /\ declarations.valid =>
       /\ Len(declarations.value) = Len(cachedTools.entries)
       /\ \A d \in DOMAIN declarations.value :
            declarations.value[d].functionDeclarations = <<cachedTools.entries[d].definition>>

\* C10 witness: the registry holds a tool whose inputSchema had both keys,
\* and its declaration has been returned by loadTools.
StrippedToolDeclared ==
  /\ declarations.valid
  /\ \E e \in DOMAIN cachedTools.entries :
       /\ cachedTools.entries[e].definition.description = "adds"
       /\ DOMAIN cachedTools.entries[e].definition.parameters = {"type", "properties"}

\* s is t or the start of t: no turn of s removed, reordered or altered.
IsPrefix(s, t) ==
  /\ Len(s) <= Len(t)
  /\ \A i \in DOMAIN s : s[i] = t[i]

\* C11: History is append-only across a session.  The contents processQuery
\* starts from are the history it was passed and one turn more; every step
\* that writes the contents of processQuery keeps what they held as a prefix,
\* across queries too, so the contents sent to the LLM in a round have those
\* of every earlier round as a prefix; the contents processQuery returns
\* have the history it was passed as a prefix; the chat loop keeps exactly
\* the returned contents as its history, and its history only ever grows.
HistoryAppendOnly ==
  [][ /\ IsPrefix(currentContents, currentContents')
      /\ IsPrefix(history, history')
      /\ (pc = "awaitMessage" /\ pc' = "loadTools") =>
           /\ IsPrefix(history, currentContents')
           /\ Len(currentContents') = Len(history) + 1
      /\ pc' = "returned" => IsPrefix(history', currentContents')
      /\ pc = "returned" => history' = currentContents ]_vars

\* C11 witness: the LLM is asked in the first round of a second query, after
\* a first query of two rounds has returned its history to the chat loop.
SecondQuerySent ==
  /\ pc = "awaitModel"
  /\ rounds = 1
  /\ Len(history) >= 4
  /\ currentContents = Append(history, Turn("user", <<TextPart("hi")>>))

\* The parts of a reply that carry a function call, in the order of the reply.
CallsOf(parts) == SelectSeq(parts, LAMBDA part : part.kind = "functionCall")

\* The number of function calls in a sequence of replies.
RECURSIVE NumCallsIn(_)
NumCallsIn(rs) ==
  IF rs = <<>> THEN 0 ELSE Len(CallsOf(Head(rs))) + NumCallsIn(Tail(rs))

\* C12: One response per call, in order.  A function-call part is a part
\* whose functionCall holds a call (a round is entered already when a part
\* has the functionCall key).  When the operator answers the confirmation of
\* a call with anything but yes, the fixed failed-or-cancelled payload is
\* pushed under the name of the call, no provider is asked and the loop goes
\* on to the next part of the same reply; when a confirmed call returns, the
\* raw response of the provider is pushed under the name of the call.  When
\* the round ends, the turn appended after the model's reply is a user turn
\* with exactly one function-response part per function-call part of the
\* reply, in the same order and with the same names, and every function-call
\* part of the query so far has been prompted and was either cancelled or
\* sent to a provider.
OneResponsePerCall ==
  [][ /\ (pc = "awaitConfirm" /\ call'.line # "yes") =>
           /\ functionResponseParts' =
                Append(functionResponseParts,
                       [kind |-> "functionResponse", name |-> response[partIdx].name,
                        args |-> "", payload |-> FailedPayload])
           /\ provider' = provider
           /\ response' = response
           /\ partIdx' = partIdx + 1
           /\ pc' = "dispatch"
      /\ (pc = "awaitTool" /\ pc' = "dispatch") =>
           /\ call.line = "yes"
           /\ \E toolResponse \in ToolResponses :
                functionResponseParts' =
                  Append(functionResponseParts,
                         [kind |-> "functionResponse", name |-> response[partIdx].name,
                          args |-> "", payload |-> toolResponse])
      /\ (pc = "dispatch" /\ pc' = "loadTools") =>
           LET n == Len(currentContents')
               reply == replies[Len(replies)]
               calls == CallsOf(reply)
               parts == currentContents'[n].parts
           IN /\ n = Len(currentContents) + 1
              /\ currentContents'[n - 1] = [role |-> "model", parts |-> reply]
              /\ currentContents'[n].role = "user"
              /\ Len(parts) = Len(calls)
              /\ \A k \in DOMAIN parts :
                   /\ parts[k].kind = "functionResponse"
                   /\ parts[k].name = calls[k].name
                   /\ parts[k].payload \in ToolResponses \cup {FailedPayload}
              /\ prompts' = NumCallsIn(replies)
              /\ prompts' = cancels' + invocations' ]_vars

\* C12 witness: a round has ended on a reply of two calls of which the
\* operator cancelled the first and confirmed the second.
CancelledThenConfirmed ==
  /\ pc = "loadTools"
  /\ Len(currentContents) >= 3
  /\ LET turn == currentContents[Len(currentContents)]
     IN /\ turn.role = "user"
        /\ Len(turn.parts) = 2
        /\ turn.parts[1].payload = FailedPayload
        /\ turn.parts[2].payload \in ToolResponses

\* C13: Loop liveness, on finite runs.  With every LLM request, provider
\* request and console read returning, processQuery ends only by returning,
\* and it returns exactly at the first reply without a function-call part:
\* when it has returned, the last reply is the only one without such a
\* part; while it runs, every reply so far has one; and it has ended without
\* returning only when a request failed, so that a model asking for a tool
\* in every reply keeps it running.
LoopLiveness ==
  /\ pc = "returned" =>
       /\ replies # <<>>
       /\ \A r \in DOMAIN replies : NoFunctionCall(replies[r]) <=> r = Len(replies)
  /\ pc \in {"loadTools", "getTool", "awaitConnect", "awaitListTools", "generateContent",
            "awaitModel", "dispatch", "awaitConfirm", "awaitTool"} =>
       \A r \in DOMAIN replies : ~NoFunctionCall(replies[r])
  /\ pc = "failed" =>
       error \in {"ConfigError", "TransportError", "LLMError", "ToolError"}

\* C14: Connect idempotence.  Over any sequence of initiate(), getTool() and
\* loadTools() calls, once a client is initialised its provider receives no
\* further connect and the client stays initialised; initiate() called on an
\* initialised client changes neither the client nor the requests any
\* provider has received and returns at once; and a connect that fails
\* leaves the client not initialised.
ConnectIdempotent ==
  [][ \A i \in DOMAIN mcpClients :
        /\ mcpClients[i].initialised =>
             /\ provider'[i].connect = provider[i].connect
             /\ mcpClients'[i].initialised
        /\ (pc = "caller" /\ entered' = "initiate" /\ clientIdx' = i
              /\ mcpClients[i].initialised) =>
             /\ mcpClients' = mcpClients
             /\ provider' = provider
             /\ inflight' = inflight
             /\ pc' = "caller"
        /\ (pc = "awaitConnect" /\ clientIdx = i /\ error' = "TransportError") =>
             /\ ~mcpClients'[i].initialised
             /\ mcpClients' = mcpClients ]_vars

\* C14 witness: initiate() has been called on and has returned from a client
\* that was initialised and had listed its tools before the call, after one
\* connect in all.
InitiateOnInitialised ==
  /\ pc = "caller"
  /\ entered = "initiate"
  /\ clientIdx \in DOMAIN mcpClients
  /\ mcpClients[clientIdx].initialised
  /\ provider[clientIdx].listTools >= 1
  /\ provider[clientIdx].connect = 1

\* Client i has listed a tool of the given name.
Exposes(i, name) ==
  \E t \in DOMAIN mcpClients[i].tools : mcpClients[i].tools[t].name = name

\* Client i is the last client in configuration order that exposes the name.
LastExposing(i, name) ==
  /\ Exposes(i, name)
  /\ \A j \in DOMAIN mcpClients : j > i => ~Exposes(j, name)

\* C15: Name collision is last-wins.  Once loadTools has returned, every
\* name some provider exposes, and so every name two providers expose, has
\* exactly one registry entry; its owner is the provider latest in
\* configuration order that exposes the name and its definition carries that
\* provider's description; loadTools has returned exactly one declaration of
\* the name, and it is that definition.  A confirmed call is sent to the
\* latest provider exposing its name, and a provider that owns no name has
\* never received a call.
LastProviderWins ==
  declarations.valid =>
    /\ \A owner \in DOMAIN mcpClients : \A name \in {"add", "echo"} :
         LastExposing(owner, name) =>
           /\ \E e \in DOMAIN cachedTools.entries :
                LET entry == cachedTools.entries[e]
                IN /\ entry.name = name
                   /\ entry.client = owner
                   /\ \E t \in DOMAIN mcpClients[owner].tools :
                        /\ mcpClients[owner].tools[t].name = name
                        /\ mcpClients[owner].tools[t].description =
                             entry.definition.description
                   /\ \A other \in DOMAIN cachedTools.entries :
                        cachedTools.entries[other].name = name => other = e
                   /\ \E d \in DOMAIN declarations.value :
                        /\ declarations.value[d].functionDeclarations = <<entry.definition>>
                        /\ \A other \in DOMAIN declarations.value :
                             declarations.value[other].functionDeclarations[1].name = name
                               => other = d
    /\ call.sent # <<>> => LastExposing(call.client, call.toolName)
    /\ \A i \in DOMAIN provider :
         provider[i].callTool > 0 =>
           \E name \in {"add", "echo"} : LastExposing(i, name)

\* C15 witness: two providers expose add, the first as "adds" and the second
\* as "sums", and a confirmed call of add has returned from the second.
CollidingCallReturned ==
  /\ Len(mcpClients) = 2
  /\ Exposes(1, "add")
  /\ Exposes(2, "add")
  /\ mcpClients[1].tools[1].description = "adds"
  /\ call.toolName = "add"
  /\ call.outcome = "returned"
  /\ provider[2].callTool = 1
  /\ provider[1].callTool = 0

\* C16: processQuery works on a copy.  From the call of processQuery until
\* it has returned or failed, no step changes the history of the chat loop,
\* the sequence passed as savedContent: the only steps that write history
\* are the start of the session and the assignment of a returned result.  So
\* after a query that failed, history is what it was when the query started.
SavedContentUnchanged ==
  [][ pc \notin {"main", "returned"} => history' = history ]_vars

\* C16 witness: a query has failed partway, after the model's reply was
\* pushed to the contents of processQuery, and history is still the shorter
\* sequence the query was started with.
FailedPartway ==
  /\ pc = "failed"
  /\ error \in {"TypeError", "ToolError"}
  /\ Len(currentContents) >= Len(history) + 2
  /\ IsPrefix(history, currentContents)

\* C17: Registry completeness.  Whenever loadTools has returned a result, the
\* result has a declaration for every tool name of every configured
\* provider, also when an earlier loadTools failed at a provider's connect
\* or listTools.
RegistryComplete ==
  declarations.valid =>
    \A i \in DOMAIN remoteTools : \A t \in DOMAIN remoteTools[i] :
      \E d \in DOMAIN declarations.value :
        declarations.value[d].functionDeclarations[1].name = remoteTools[i][t].name

\* C18: Well-formed returned history.  In the contents processQuery returns,
\* every model turn with a part that has the functionCall key is followed at
\* once by a user turn made only of function-response parts, every such user
\* turn is followed at once by a model turn, and the last turn is a model
\* turn without a part that has the functionCall key.
ReturnedHistoryWellFormed ==
  pc = "returned" =>
    LET h == currentContents
        n == Len(h)
        Calls(turn) ==
          /\ turn.role = "model"
          /\ \E p \in DOMAIN turn.parts :
               turn.parts[p].kind \in {"functionCall", "functionCallEmpty"}
    IN /\ n >= 2
       /\ \A k \in 1..n :
            Calls(h[k]) =>
              /\ k + 2 <= n
              /\ h[k + 1].role = "user"
              /\ \A p \in DOMAIN h[k + 1].parts : h[k + 1].parts[p].kind = "functionResponse"
              /\ h[k + 2].role = "model"
       /\ h[n].role = "model"
       /\ ~Calls(h[n])

\* C18 witness: processQuery has returned contents that hold a dispatching
\* round: a model turn with a call, the user turn answering it, and the
\* final model turn.
DispatchingHistoryReturned ==
  /\ pc = "returned"
  /\ Len(replies) >= 2
  /\ Len(currentContents) >= 3
  /\ currentContents[Len(currentContents) - 1].role = "user"
  /\ Len(currentContents[Len(currentContents) - 1].parts) >= 1

\* C19: Calls only on connected handles.  Whenever a step of the chat session
\* sends a tool request to a provider, the client of that provider is
\* initialised after a connect that succeeded, holds the tool list it
\* fetched, and owns the registry entry of the name called.
CallsOnlyOnConnected ==
  [][ \A i \in DOMAIN provider :
        provider'[i].callTool # provider[i].callTool =>
          /\ i \in DOMAIN mcpClients
          /\ mcpClients[i].initialised
          /\ ~mcpClients[i].toolsNull
          /\ provider[i].connect = 1
          /\ provider[i].listTools = 1
          /\ \E e \in DOMAIN cachedTools.entries :
               /\ cachedTools.entries[e].name = call.toolName
               /\ cachedTools.entries[e].client = i ]_vars

\* C19 witness: a tool request is in flight at the provider of a client that
\* is initialised and has its tool list.
ToolRequestInFlight ==
  /\ pc = "awaitTool"
  /\ inflight = <<[kind |-> "callTool", part |-> partIdx]>>
  /\ provider[call.client].callTool >= 1
  /\ mcpClients[call.client].initialised
  /\ ~mcpClients[call.client].toolsNull

====
